---- MODULE Spec2Model ----
(***************************************************************************)
(* Model of display-config.py: DisplayConfig._configure, the recursive     *)
(* backtracking search that assigns the requested outputs to CRTCs, and    *)
(* DisplayConfig.configure, which submits the result with                  *)
(* ApplyConfiguration.                                                     *)
(*                                                                         *)
(* The Python call stack of _configure is the variable stack: one frame    *)
(* per active call, the last one being the call that is running.  Python   *)
(* lists are modelled as sequences and dicts as functions.  The lists are  *)
(* values here: the code never mutates a list that another frame holds     *)
(* (line 119 appends to a list built by `+`, by deepcopy or by the caller's*)
(* `[]`; line 149 appends to the deep copy made on line 148).              *)
(***************************************************************************)
EXTENDS Integers, Sequences, FiniteSets, TLC

\* ---------------------------------------------------------------- bounds
\* Number of CRTCs of the topology (self.crtcs), ids 1..NumCrtcs.
NumCrtcs == 2
\* Number of outputs of the topology (self.outputs), ids 1..NumOutputs.
NumOutputs == 3
\* Longest request sequence handed to configure().
MaxRequests == 3
\* Number of distinct (mode, x, y, transform) settings a request may ask for.
NumTimings == 2

\* ------------------------------------------------------------- constants
\* Python's None, for OutputRequest.clone_of (an output id otherwise).
None == 0
\* new_mode of a disabled CRTC.
DisabledMode == -1
\* self.serial as returned by GetResources.
InitialSerial == 1

\* An exception: its class, the text of its message and the values
\* formatted into the text.
NoException == [class |-> "none", text |-> "", format_args |-> <<>>]

\* Line 111: Exception("Unable to find output {0}".format(id_)).
UnableToFindOutput(id) ==
    [class |-> "Exception", text |-> "Unable to find output {0}",
     format_args |-> <<id>>]

\* Faulty variant of InvalidConfigurationException: the output is put in the error.
InvalidConfigurationNamingOutput(output_request) ==
    [class |-> "InvalidConfigurationException",
     text |-> "Unable to find a configuration for output {0}",
     format_args |-> <<output_request.id_>>]

\* Lines 179-180: the message is a fixed text.
InvalidConfigurationException(output_request) ==
    [class |-> "InvalidConfigurationException",
     text |-> "Unable to find a configuration for the requested outputs",
     format_args |-> <<>>]

VARIABLES
    serial,     \* self.serial
    crtcs,      \* self.crtcs: sequence of Crtc
    outputs,    \* self.outputs: sequence of Output
    requests,   \* the output_requests argument of configure()
    stack,      \* active calls of _configure, outermost first
    exc,        \* the exception in flight, NoException when there is none
    phase,      \* where configure() is: idle, searching, returned, applied, failed
    result,     \* what _configure returned to configure(): <<outputs, crtcs>>
    applied     \* the ApplyConfiguration calls issued on the proxy

vars == <<serial, crtcs, outputs, requests, stack, exc, phase, result, applied>>

\* ------------------------------------------------------------ data model
CrtcIds == 1..NumCrtcs
OutputIds == 1..NumOutputs

\* The set of elements of a sequence.
Range(s) == {s[i] : i \in 1..Len(s)}

\* All sequences over S without repetition (an output's possible_crtcs).
RECURSIVE OrderedSubsets(_)
OrderedSubsets(S) ==
    {<<>>} \cup UNION {{<<x>> \o t : t \in OrderedSubsets(S \ {x})} : x \in S}

\* dict(): the empty property mapping.
EmptyDict == [key \in {} |-> TRUE]

\* Crtc namedtuple; only id_ is read by _configure.
Crtc(id) == [id_ |-> id]

\* Output namedtuple; _configure reads id_, possible_crtcs and properties.
Output(id, possible, primary, presentation) ==
    [id_ |-> id,
     possible_crtcs |-> possible,
     properties |-> [primary |-> primary, presentation |-> presentation]]

\* Mode namedtuple; only id_ is read by _configure.
Mode(id) == [id_ |-> id]

\* OutputRequest.__init__: a clone takes enabled, mode, x, y and transform
\* from the request it clones, whatever was passed for them.  clone is
\* <<>> for clone_of=None and <<r>> for clone_of=r; the clone_of field keeps
\* the id of the cloned request's output, the only part _configure reads.
OutputRequest(id, enabled, mode, x, y, transform, presentation, clone) ==
    IF clone = <<>>
    THEN [id_ |-> id, clone_of |-> None, presentation |-> presentation,
          enabled |-> enabled, mode |-> mode, x |-> x, y |-> y,
          transform |-> transform]
    ELSE [id_ |-> id, clone_of |-> clone[1].id_, presentation |-> presentation,
          enabled |-> clone[1].enabled, mode |-> clone[1].mode,
          x |-> clone[1].x, y |-> clone[1].y,
          transform |-> clone[1].transform]

CrtcConfiguration(id, new_mode, x, y, transform, outs, properties) ==
    [id_ |-> id, new_mode |-> new_mode, x |-> x, y |-> y,
     transform |-> transform, outputs |-> outs, properties |-> properties]

OutputConfiguration(id, properties) == [id_ |-> id, properties |-> properties]

\* ---------------------------------------------------------------- inputs
\* The t-th setting a request may ask for; the settings differ in every
\* field, and none is the disabled form (-1, 0, 0, 0).
Settings(t) ==
    [mode |-> Mode(t), x |-> t - 1, y |-> 2 * (t - 1), transform |-> t - 1]

\* The requests that can follow the requests s: a request of its own, or a
\* clone of a request of s (main() offers --clone for processed outputs).
NewRequests(s, ids, timings, presentations) ==
    {OutputRequest(id, TRUE, Settings(t).mode, Settings(t).x, Settings(t).y,
                   Settings(t).transform, p, clone) :
        id \in ids, t \in timings, p \in presentations,
        clone \in {<<>>} \cup {<<s[j]>> : j \in 1..Len(s)}}

RECURSIVE RequestSeqs(_, _, _, _)
RequestSeqs(n, ids, timings, presentations) ==
    IF n = 0 THEN {<<>>}
    ELSE LET shorter == RequestSeqs(n - 1, ids, timings, presentations)
         IN shorter \cup
            UNION {{Append(s, r) :
                        r \in NewRequests(s, ids, timings, presentations)} :
                    s \in {q \in shorter : Len(q) = n - 1}}

\* An id no output of the topology has.
UnknownOutputId == NumOutputs + 1

\* The request sequences configure() is called with: requests for any
\* output id, known or not, with any setting, and requests for the known
\* outputs with any presentation flag.  An output may be requested more
\* than once (_configure does not reject it).  As in main(), a clone
\* clones an earlier request of the sequence, enabled keeps its default
\* True and mode is a Mode.
RequestInputs ==
    RequestSeqs(MaxRequests, OutputIds \cup {UnknownOutputId},
                1..NumTimings, {FALSE})
    \cup RequestSeqs(MaxRequests, OutputIds, {1}, BOOLEAN)

\* Every CRTC, in the order of the ids.
AllCrtcs == [i \in CrtcIds |-> i]

\* The topologies GetResources may return: outputs with any possible_crtcs,
\* and outputs with any current primary and presentation.
Topologies ==
    {[i \in OutputIds |-> Output(i, possible[i], FALSE, FALSE)] :
        possible \in [OutputIds -> OrderedSubsets(CrtcIds)]}
    \cup
    {[i \in OutputIds |-> Output(i, AllCrtcs, primary[i], presentation[i])] :
        primary \in [OutputIds -> BOOLEAN],
        presentation \in [OutputIds -> BOOLEAN]}

\* ------------------------------------------------------------- lookups
\* _get_output finds the first output of self.outputs with the id, or raises.
HasOutput(id) == \E i \in 1..Len(outputs) : outputs[i].id_ = id

_get_output(id) ==
    outputs[CHOOSE i \in 1..Len(outputs) :
                /\ outputs[i].id_ = id
                /\ \A j \in 1..(i - 1) : outputs[j].id_ # id]

\* [crtc.id_ for crtc in configured_crtcs], as a set (only membership is read).
ConfiguredIds(configured_crtcs) ==
    {configured_crtcs[i].id_ : i \in 1..Len(configured_crtcs)}

\* ------------------------------------------------------- _configure steps
\* A frame of _configure: n requests are consumed (output_requests is
\* requests[n+1..]), the two accumulators, the position in the body and the
\* index k into output.possible_crtcs of the `for crtcid_` loop.
Frame(n, configured_outputs, configured_crtcs) ==
    [n |-> n, configured_outputs |-> configured_outputs,
     configured_crtcs |-> configured_crtcs, pc |-> "entry", k |-> 1]

Top == stack[Len(stack)]
Running == phase = "searching" /\ exc = NoException /\ stack # <<>>
SetTop(f) == [stack EXCEPT ![Len(stack)] = f]

\* output_requests[0] of the running call.
HeadRequest == requests[Top.n + 1]

\* Faulty variant of AppendDisabled: the unused CRTCs are left out of the result.
AppendDisabledNone(configured_crtcs, i) == configured_crtcs

\* Lines 115-127: the CRTCs of self.crtcs that are not configured are
\* appended, in the order of self.crtcs, in the disabled form.
RECURSIVE AppendDisabled(_, _)
AppendDisabled(configured_crtcs, i) ==
    IF i > Len(crtcs) THEN configured_crtcs
    ELSE AppendDisabled(
            IF crtcs[i].id_ \notin ConfiguredIds(configured_crtcs)
            THEN Append(configured_crtcs,
                        CrtcConfiguration(crtcs[i].id_, DisabledMode, 0, 0, 0,
                                          <<>>, EmptyDict))
            ELSE configured_crtcs,
            i + 1)

\* Faulty variant of OutputProperties: every output is made the primary one.
OutputPropertiesAllPrimary(output, output_request, configured_outputs) ==
    LET primary == TRUE
        keys == (IF output.properties.primary # primary
                 THEN {"primary"} ELSE {})
                \cup
                (IF output.properties.presentation # output_request.presentation
                 THEN {"presentation"} ELSE {})
    IN [key \in keys |->
            IF key = "primary" THEN primary ELSE output_request.presentation]

\* Faulty variant of OutputProperties: primary is emitted whether it changes or not.
OutputPropertiesNoDelta(output, output_request, configured_outputs) ==
    LET primary == (Len(configured_outputs) = 0)
        keys == {"primary"}
                \cup
                (IF output.properties.presentation # output_request.presentation
                 THEN {"presentation"} ELSE {})
    IN [key \in keys |->
            IF key = "primary" THEN primary ELSE output_request.presentation]

\* Faulty variant of OutputProperties: the presentation emitted is the
\* output's current one, not the requested one.
OutputPropertiesStalePresentation(output, output_request, configured_outputs) ==
    LET primary == (Len(configured_outputs) = 0)
        keys == (IF output.properties.primary # primary
                 THEN {"primary"} ELSE {})
                \cup
                (IF output.properties.presentation # output_request.presentation
                 THEN {"presentation"} ELSE {})
    IN [key \in keys |->
            IF key = "primary" THEN primary ELSE output.properties.presentation]

\* Lines 132-142: the property delta of the head output.  primary is "no
\* output is configured yet"; a key is emitted when the output's current
\* value differs from the wanted one.
OutputProperties(output, output_request, configured_outputs) ==
    LET primary == (Len(configured_outputs) = 0)
        keys == (IF output.properties.primary # primary
                 THEN {"primary"} ELSE {})
                \cup
                (IF output.properties.presentation # output_request.presentation
                 THEN {"presentation"} ELSE {})
    IN [key \in keys |->
            IF key = "primary" THEN primary ELSE output_request.presentation]

HeadOutputConfiguration ==
    OutputConfiguration(
        HeadRequest.id_,
        OutputProperties(_get_output(HeadRequest.id_), HeadRequest,
                         Top.configured_outputs))

\* Lines 144-146: the index of the first configured CRTC that drives the
\* cloned output, 0 when the request is no clone or no CRTC drives it.
CloneSourceIndex(output_request, configured_crtcs) ==
    IF output_request.clone_of = None THEN 0
    ELSE LET hits == {i \in 1..Len(configured_crtcs) :
                        output_request.clone_of
                            \in Range(configured_crtcs[i].outputs)}
         IN IF hits = {} THEN 0
            ELSE CHOOSE i \in hits : \A j \in hits : i <= j

\* Faulty variant of CloneFastPath: the test of line 147 is dropped.
CloneFastPathAnyCrtc(output, output_request, configured_crtcs) ==
    CloneSourceIndex(output_request, configured_crtcs) # 0

\* Line 147: the fast path is taken when that CRTC can drive the output.
CloneFastPath(output, output_request, configured_crtcs) ==
    LET i == CloneSourceIndex(output_request, configured_crtcs)
    IN /\ i # 0
       /\ configured_crtcs[i].id_ \in Range(output.possible_crtcs)

\* Faulty variant of AttachClone: the output replaces the outputs of the CRTC.
AttachCloneOverwrite(output_request, configured_crtcs) ==
    LET i == CloneSourceIndex(output_request, configured_crtcs)
    IN [configured_crtcs EXCEPT ![i].outputs = <<output_request.id_>>]

\* Lines 148-149: the copy of configured_crtcs with the output attached.
AttachClone(output_request, configured_crtcs) ==
    LET i == CloneSourceIndex(output_request, configured_crtcs)
    IN [configured_crtcs EXCEPT
            ![i].outputs = Append(@, output_request.id_)]

\* Faulty variant of CallersAfterAttach: without the deep copy of line 148
\* the append of line 149 reaches the CrtcConfiguration itself, which the
\* lists of the active calls share.
CallersAfterAttachShared(frames, output_request) ==
    LET top == frames[Len(frames)]
        i == CloneSourceIndex(output_request, top.configured_crtcs)
        shared == top.configured_crtcs[i].id_
    IN [f \in 1..Len(frames) |->
            [frames[f] EXCEPT !.configured_crtcs =
                [j \in 1..Len(@) |->
                    IF @[j].id_ = shared
                    THEN [@[j] EXCEPT !.outputs =
                                Append(@, output_request.id_)]
                    ELSE @[j]]]]

\* Line 148: the append of line 149 is made on a deep copy of
\* configured_crtcs, so the active calls keep their lists and their
\* CrtcConfigurations as they are.
CallersAfterAttach(frames, output_request) == frames

\* Faulty variant of ConfiguredCrtc: x and y are exchanged.
ConfiguredCrtcSwapped(crtcid_, output, output_request) ==
    CrtcConfiguration(crtcid_, output_request.mode.id_, output_request.y,
                      output_request.x, output_request.transform,
                      <<output.id_>>, EmptyDict)

\* Lines 163-170: the CRTC configured for the head request.
ConfiguredCrtc(crtcid_, output, output_request) ==
    CrtcConfiguration(crtcid_, output_request.mode.id_, output_request.x,
                      output_request.y, output_request.transform,
                      <<output.id_>>, EmptyDict)

\* Lines 115-127: no request is left.  The call returns, and so does every
\* caller (each recursive call is `return self._configure(...)`).
BaseCase ==
    /\ Running
    /\ Top.pc = "entry"
    /\ Top.n = Len(requests)
    /\ result' = <<Top.configured_outputs,
                   AppendDisabled(Top.configured_crtcs, 1)>>
    /\ stack' = <<>>
    /\ phase' = "returned"
    /\ UNCHANGED <<serial, crtcs, outputs, requests, exc, applied>>

\* Lines 130, 111: the head request names an output the topology lacks.
UnknownOutput ==
    /\ Running
    /\ Top.pc = "entry"
    /\ Top.n < Len(requests)
    /\ ~HasOutput(HeadRequest.id_)
    /\ exc' = UnableToFindOutput(HeadRequest.id_)
    /\ stack' = SubSeq(stack, 1, Len(stack) - 1)
    /\ UNCHANGED <<serial, crtcs, outputs, requests, phase, result, applied>>

\* Lines 144-153: the clone fast path; the call is made outside the try.
CloneAttach ==
    /\ Running
    /\ Top.pc = "entry"
    /\ Top.n < Len(requests)
    /\ HasOutput(HeadRequest.id_)
    /\ CloneFastPath(_get_output(HeadRequest.id_), HeadRequest,
                     Top.configured_crtcs)
    /\ stack' = Append(
            [CallersAfterAttach(stack, HeadRequest)
                EXCEPT ![Len(stack)].pc = "call_clone"],
            Frame(Top.n + 1,
                  Append(Top.configured_outputs, HeadOutputConfiguration),
                  AttachClone(HeadRequest, Top.configured_crtcs)))
    /\ UNCHANGED <<serial, crtcs, outputs, requests, exc, phase, result, applied>>

\* Lines 144-159: no clone, no CRTC drives the cloned output, or that CRTC
\* cannot drive this output (break): generic processing starts.
GenericProcessing ==
    /\ Running
    /\ Top.pc = "entry"
    /\ Top.n < Len(requests)
    /\ HasOutput(HeadRequest.id_)
    /\ ~CloneFastPath(_get_output(HeadRequest.id_), HeadRequest,
                      Top.configured_crtcs)
    /\ stack' = SetTop([Top EXCEPT !.pc = "loop", !.k = 1])
    /\ UNCHANGED <<serial, crtcs, outputs, requests, exc, phase, result, applied>>

\* The candidate of the running iteration of `for crtcid_ in possible_crtcs`.
InLoop ==
    /\ Running
    /\ Top.pc = "loop"
    /\ Top.k <= Len(_get_output(HeadRequest.id_).possible_crtcs)

\* Faulty variant of CandidateAt: the candidates are tried last first.
CandidateFromEnd(possible_crtcs, k) ==
    possible_crtcs[Len(possible_crtcs) + 1 - k]

\* The k-th CRTC id of possible_crtcs, in the declared order (line 159).
CandidateAt(possible_crtcs, k) == possible_crtcs[k]

Candidate == CandidateAt(_get_output(HeadRequest.id_).possible_crtcs, Top.k)

\* Faulty variant of AlreadyConfigured: the skip of lines 161-162 is dropped.
NeverConfigured(crtcid_, configured_crtcs) == FALSE

\* Line 161: crtcid_ in [configured.id_ for configured in configured_crtcs].
AlreadyConfigured(crtcid_, configured_crtcs) ==
    crtcid_ \in ConfiguredIds(configured_crtcs)

\* Lines 161-162: the CRTC is already configured, continue.
SkipConfigured ==
    /\ InLoop
    /\ AlreadyConfigured(Candidate, Top.configured_crtcs)
    /\ stack' = SetTop([Top EXCEPT !.k = @ + 1])
    /\ UNCHANGED <<serial, crtcs, outputs, requests, exc, phase, result, applied>>

\* Lines 163-175: configure the candidate and recurse, inside the try.
TryCrtc ==
    /\ InLoop
    /\ ~AlreadyConfigured(Candidate, Top.configured_crtcs)
    /\ stack' = Append(
            SetTop([Top EXCEPT !.pc = "call_try"]),
            Frame(Top.n + 1,
                  Append(Top.configured_outputs, HeadOutputConfiguration),
                  Append(Top.configured_crtcs,
                         ConfiguredCrtc(Candidate,
                                        _get_output(HeadRequest.id_),
                                        HeadRequest))))
    /\ UNCHANGED <<serial, crtcs, outputs, requests, exc, phase, result, applied>>

\* Lines 179-180: the loop is over without a return.
Exhausted ==
    /\ Running
    /\ Top.pc = "loop"
    /\ Top.k > Len(_get_output(HeadRequest.id_).possible_crtcs)
    /\ exc' = InvalidConfigurationException(HeadRequest)
    /\ stack' = SubSeq(stack, 1, Len(stack) - 1)
    /\ UNCHANGED <<serial, crtcs, outputs, requests, phase, result, applied>>

\* Faulty variant of Handles: the failure of a candidate is not caught.
HandlesNothing(frame, e) == FALSE

\* Faulty variant of Handles: a bare `except:` catches every exception.
HandlesAnything(frame, e) == frame.pc = "call_try"

\* Lines 176-177: `except InvalidConfigurationException: pass`, then the
\* next iteration of the loop.
Handles(frame, e) ==
    frame.pc = "call_try" /\ e.class = "InvalidConfigurationException"

\* Faulty variant of Catch: the loop resumes at the candidate that failed.
CatchRetry ==
    /\ phase = "searching"
    /\ exc # NoException
    /\ stack # <<>>
    /\ Handles(Top, exc)
    /\ exc' = NoException
    /\ stack' = SetTop([Top EXCEPT !.pc = "loop"])
    /\ UNCHANGED <<serial, crtcs, outputs, requests, phase, result, applied>>

Catch ==
    /\ phase = "searching"
    /\ exc # NoException
    /\ stack # <<>>
    /\ Handles(Top, exc)
    /\ exc' = NoException
    /\ stack' = SetTop([Top EXCEPT !.pc = "loop", !.k = @ + 1])
    /\ UNCHANGED <<serial, crtcs, outputs, requests, phase, result, applied>>

\* The exception leaves a call that does not handle it: the call of the
\* clone fast path (line 150), or any call when it is not an
\* InvalidConfigurationException.
Unwind ==
    /\ phase = "searching"
    /\ exc # NoException
    /\ stack # <<>>
    /\ ~Handles(Top, exc)
    /\ stack' = SubSeq(stack, 1, Len(stack) - 1)
    /\ UNCHANGED <<serial, crtcs, outputs, requests, exc, phase, result, applied>>

\* ------------------------------------------------------------ configure
\* Lines 184-187: the parameters of the ApplyConfiguration call.
ApplyParams(persistent, outs, configured) ==
    [serial |-> serial, persistent |-> persistent,
     crtcs |-> configured, outputs |-> outs]

\* Line 183: configure() calls _configure(output_requests, [], []).
Configure ==
    /\ phase = "idle"
    /\ \E output_requests \in RequestInputs : requests' = output_requests
    /\ stack' = <<Frame(0, <<>>, <<>>)>>
    /\ phase' = "searching"
    /\ UNCHANGED <<serial, crtcs, outputs, exc, result, applied>>

\* Faulty variant of ApplyConfiguration: the call is also issued when _configure
\* raised, with what configure() holds then.
ApplyConfigurationAlways ==
    /\ phase \in {"returned", "failed"}
    /\ applied = <<>>
    /\ \E persistent \in BOOLEAN :
        applied' = Append(applied,
                          ApplyParams(persistent, result[1], result[2]))
    /\ phase' = IF phase = "returned" THEN "applied" ELSE phase
    /\ UNCHANGED <<serial, crtcs, outputs, requests, stack, exc, result>>

\* Lines 184-187: _configure returned; the result is submitted.  persistent
\* is not read before line 185, so it is drawn here.
ApplyConfiguration ==
    /\ phase = "returned"
    /\ \E persistent \in BOOLEAN :
        applied' = Append(applied,
                          ApplyParams(persistent, result[1], result[2]))
    /\ phase' = "applied"
    /\ UNCHANGED <<serial, crtcs, outputs, requests, stack, exc, result>>

\* Line 183: the exception leaves _configure and configure(); lines 184-187
\* are not run.
Propagate ==
    /\ phase = "searching"
    /\ exc # NoException
    /\ stack = <<>>
    /\ phase' = "failed"
    /\ UNCHANGED <<serial, crtcs, outputs, requests, stack, exc, result, applied>>

\* ------------------------------------------------------------ behaviours
\* Lines 77-93: the state after DisplayConfig(): the resources are read.
Init ==
    /\ serial = InitialSerial
    /\ crtcs = [i \in CrtcIds |-> Crtc(i)]
    /\ outputs \in Topologies
    /\ requests = <<>>
    /\ stack = <<>>
    /\ exc = NoException
    /\ phase = "idle"
    /\ result = <<<<>>, <<>>>>
    /\ applied = <<>>

Next ==
    \/ Configure
    \/ BaseCase
    \/ UnknownOutput
    \/ CloneAttach
    \/ GenericProcessing
    \/ SkipConfigured
    \/ TryCrtc
    \/ Exhausted
    \/ Catch
    \/ Unwind
    \/ ApplyConfiguration
    \/ Propagate

Spec == Init /\ [][Next]_vars

\* The search of _configure branches on the ids and clone_of of the requests
\* and on possible_crtcs only; the settings and the properties are copied.
\* The inputs that differ in what the search reads:
SearchInputs ==
    RequestSeqs(MaxRequests, OutputIds \cup {UnknownOutputId}, {1}, {FALSE})

SearchTopologies ==
    {[i \in OutputIds |-> Output(i, possible[i], FALSE, FALSE)] :
        possible \in [OutputIds -> OrderedSubsets(CrtcIds)]}

SearchInit ==
    /\ serial = InitialSerial
    /\ crtcs = [i \in CrtcIds |-> Crtc(i)]
    /\ outputs \in SearchTopologies
    /\ requests = <<>>
    /\ stack = <<>>
    /\ exc = NoException
    /\ phase = "idle"
    /\ result = <<<<>>, <<>>>>
    /\ applied = <<>>

\* Line 183, for the inputs of the search.
ConfigureSearch ==
    /\ phase = "idle"
    /\ \E output_requests \in SearchInputs : requests' = output_requests
    /\ stack' = <<Frame(0, <<>>, <<>>)>>
    /\ phase' = "searching"
    /\ UNCHANGED <<serial, crtcs, outputs, exc, result, applied>>

SearchNext ==
    \/ ConfigureSearch
    \/ BaseCase
    \/ UnknownOutput
    \/ CloneAttach
    \/ GenericProcessing
    \/ SkipConfigured
    \/ TryCrtc
    \/ Exhausted
    \/ Catch
    \/ Unwind
    \/ ApplyConfiguration
    \/ Propagate

\* The interpreter runs the one thread of the program: a statement that can
\* be executed is executed.
FairSpec == SearchInit /\ [][SearchNext]_vars /\ WF_vars(SearchNext)

\* ============================================================== claims
\* _configure returned to configure().
Succeeded == phase \in {"returned", "applied"}
\* configure() is over, one way or the other.
Finished == phase \in {"applied", "failed"}
ResultOutputs == result[1]
ResultCrtcs == result[2]

\* The indexes of the returned CrtcConfigurations that drive the output.
DrivingEntries(id) ==
    {i \in 1..Len(ResultCrtcs) : id \in Range(ResultCrtcs[i].outputs)}

\* No output is requested twice.
DistinctOutputs ==
    \A i, j \in 1..Len(requests) : requests[i].id_ = requests[j].id_ => i = j
NoClones == \A i \in 1..Len(requests) : requests[i].clone_of = None
AllKnown == \A i \in 1..Len(requests) : HasOutput(requests[i].id_)

DisabledCrtc(id) == CrtcConfiguration(id, DisabledMode, 0, 0, 0, <<>>, EmptyDict)

\* C2: a successful result has exactly one CrtcConfiguration per CRTC of
\* self.crtcs and no other; an entry that drives no output is in the
\* disabled form, and an entry that drives an output is not.
C2_OneEntryPerCrtc ==
    Succeeded =>
        /\ Len(ResultCrtcs) = Len(crtcs)
        /\ \A c \in 1..Len(crtcs) :
            \E i \in 1..Len(ResultCrtcs) : ResultCrtcs[i].id_ = crtcs[c].id_
        /\ \A i \in 1..Len(ResultCrtcs) :
            /\ \E c \in 1..Len(crtcs) : ResultCrtcs[i].id_ = crtcs[c].id_
            /\ (\A r \in 1..Len(requests) :
                    requests[r].id_ \notin Range(ResultCrtcs[i].outputs))
                => ResultCrtcs[i] = DisabledCrtc(ResultCrtcs[i].id_)
            /\ ResultCrtcs[i].outputs # <<>>
                => /\ ResultCrtcs[i] # DisabledCrtc(ResultCrtcs[i].id_)
                   /\ ResultCrtcs[i].new_mode # DisabledMode

\* One CRTC drives an output and another one is returned disabled.
C2_Witness ==
    /\ Succeeded
    /\ \E i, j \in 1..Len(ResultCrtcs) :
        /\ ResultCrtcs[i].outputs # <<>>
        /\ ResultCrtcs[j] = DisabledCrtc(ResultCrtcs[j].id_)

\* ------------------------------------------------------------------ C3
NoDuplicateCrtc(configured_crtcs) ==
    \A i, j \in 1..Len(configured_crtcs) :
        configured_crtcs[i].id_ = configured_crtcs[j].id_ => i = j

\* C3: in the accumulated list of every active call and in the returned
\* list, two distinct CrtcConfigurations have different CRTC ids.
C3_NoCrtcDoubleBooked ==
    /\ \A f \in 1..Len(stack) : NoDuplicateCrtc(stack[f].configured_crtcs)
    /\ NoDuplicateCrtc(ResultCrtcs)

\* The search has skipped a configured CRTC and configured the next one.
C3_Witness ==
    /\ Len(stack) = 3
    /\ stack[2].k = 2
    /\ Len(stack[3].configured_crtcs) = 2
    /\ _get_output(requests[2].id_).possible_crtcs[1]
            = stack[2].configured_crtcs[1].id_

\* ------------------------------------------------------------------ C4
\* An injective choice of a possible CRTC for every request.
Assignments ==
    {m \in [1..Len(requests) -> CrtcIds] :
        /\ \A i, j \in 1..Len(requests) : m[i] = m[j] => i = j
        /\ \A i \in 1..Len(requests) :
            m[i] \in Range(_get_output(requests[i].id_).possible_crtcs)}

\* The requests are of their own, for distinct outputs of the topology.
Independent == NoClones /\ DistinctOutputs /\ AllKnown

\* C4: for requests of their own for distinct outputs, _configure returns
\* exactly when the requests can be mapped one to one to CRTCs that are
\* possible for them, and raises InvalidConfigurationException otherwise;
\* with A = [C1, C2] requested before B = [C1], A is on C2 and B on C1.
C4_SucceedsIffAssignable ==
    (Independent /\ (Succeeded \/ phase = "failed")) =>
        /\ Succeeded <=> Assignments # {}
        /\ phase = "failed" => exc.class = "InvalidConfigurationException"
        /\ ( /\ Len(requests) = 2
             /\ _get_output(requests[1].id_).possible_crtcs = <<1, 2>>
             /\ _get_output(requests[2].id_).possible_crtcs = <<1>> )
            => /\ Succeeded
               /\ DrivingEntries(requests[1].id_) =
                    {i \in 1..Len(ResultCrtcs) : ResultCrtcs[i].id_ = 2}
               /\ DrivingEntries(requests[2].id_) =
                    {i \in 1..Len(ResultCrtcs) : ResultCrtcs[i].id_ = 1}

\* The first candidate of the first request was given up: A is on C2, B on C1.
C4_Witness ==
    /\ Succeeded
    /\ Independent
    /\ Len(requests) = 2
    /\ _get_output(requests[1].id_).possible_crtcs = <<1, 2>>
    /\ _get_output(requests[2].id_).possible_crtcs = <<1>>
    /\ ResultCrtcs[1].id_ = 2
    /\ ResultCrtcs[1].outputs = <<requests[1].id_>>
    /\ ResultCrtcs[2].id_ = 1
    /\ ResultCrtcs[2].outputs = <<requests[2].id_>>

\* ------------------------------------------------------------------ C5
\* The calls that took the clone fast path in the running branch.
CloneCalls == {f \in 1..Len(stack) : stack[f].pc = "call_clone"}

\* C5: when a call takes the clone fast path (the head request is a clone,
\* a configured CRTC of the branch drives the cloned output and is possible
\* for the head output) and the search returns, that CrtcConfiguration of
\* the result drives both outputs, its new_mode, x, y and transform are the
\* ones it had before the clone, and the clone adds no CrtcConfiguration.
C5_HardwareCloneAttached ==
    [][phase' = "returned" =>
        \A f \in CloneCalls :
            LET request == requests[stack[f].n + 1]
                before == stack[f].configured_crtcs
                i == CloneSourceIndex(request, before)
                entry == result'[2][i]
            IN /\ request.clone_of # None
               /\ request.clone_of \in Range(before[i].outputs)
               /\ before[i].id_ \in
                    Range(_get_output(request.id_).possible_crtcs)
               /\ entry.id_ = before[i].id_
               /\ request.clone_of \in Range(entry.outputs)
               /\ request.id_ \in Range(entry.outputs)
               /\ entry.new_mode = before[i].new_mode
               /\ entry.x = before[i].x
               /\ entry.y = before[i].y
               /\ entry.transform = before[i].transform
               /\ Len(stack[f + 1].configured_crtcs) = Len(before)
               /\ DistinctOutputs =>
                    {j \in 1..Len(result'[2]) :
                        request.id_ \in Range(result'[2][j].outputs)} = {i}]_vars

\* Two outputs that only CRTC 1 can drive, the second requested as a clone
\* of the first: CRTC 1 drives both with the settings of the first request.
C5_Witness ==
    /\ Succeeded
    /\ Len(requests) = 2
    /\ requests[1].id_ # requests[2].id_
    /\ requests[2].clone_of = requests[1].id_
    /\ _get_output(requests[1].id_).possible_crtcs = <<1>>
    /\ _get_output(requests[2].id_).possible_crtcs = <<1>>
    /\ requests[1].mode.id_ = 2
    /\ ResultCrtcs[1] =
        CrtcConfiguration(1, requests[1].mode.id_, requests[1].x,
                          requests[1].y, requests[1].transform,
                          <<requests[1].id_, requests[2].id_>>, EmptyDict)
    /\ ResultCrtcs[2] = DisabledCrtc(2)

\* ------------------------------------------------------------------ C6
\* The i-th returned OutputConfiguration carries primary = v in its delta.
CarriesPrimary(i, v) ==
    /\ "primary" \in DOMAIN ResultOutputs[i].properties
    /\ ResultOutputs[i].properties["primary"] = v

PrimaryEntries == {i \in 1..Len(ResultOutputs) : CarriesPrimary(i, TRUE)}

\* C6: in every successful result at most one OutputConfiguration carries
\* primary = true, it is the entry of the first request, and every other
\* entry has no primary key or carries primary = false.
C6_PrimaryUniqueness ==
    Succeeded =>
        /\ Cardinality(PrimaryEntries) <= 1
        /\ PrimaryEntries \subseteq {1}
        /\ Len(ResultOutputs) = Len(requests)
        /\ \A i \in 1..Len(ResultOutputs) :
            /\ ResultOutputs[i].id_ = requests[i].id_
            /\ i # 1 =>
                \/ "primary" \notin DOMAIN ResultOutputs[i].properties
                \/ CarriesPrimary(i, FALSE)

\* The first request's output becomes primary and another output, primary
\* until now, stops being it.
C6_Witness ==
    /\ Succeeded
    /\ Len(requests) >= 2
    /\ CarriesPrimary(1, TRUE)
    /\ CarriesPrimary(2, FALSE)

\* ------------------------------------------------------------------ C7
\* C7 as stated: in every successful result for a non-empty request
\* sequence exactly one OutputConfiguration carries primary = true, the
\* entry of the first request, whatever the outputs' current primary is.
C7_ExactlyOnePrimary ==
    (Succeeded /\ requests # <<>>) => PrimaryEntries = {1}

\* C7 amended: in every successful result for a non-empty request sequence
\* the entry of the first request carries primary = true exactly when its
\* output is not primary now, and no other entry carries primary = true;
\* when the first request's output is primary already, no entry does.
C7_PrimaryOnlyWhenChanged ==
    (Succeeded /\ requests # <<>>) =>
        PrimaryEntries =
            IF _get_output(requests[1].id_).properties.primary
            THEN {} ELSE {1}

\* The first request's output is primary already: no entry carries primary.
C7_Witness ==
    /\ Succeeded
    /\ Len(requests) >= 2
    /\ _get_output(requests[1].id_).properties.primary
    /\ PrimaryEntries = {}
    /\ CarriesPrimary(2, FALSE)

\* ------------------------------------------------------------------ C8
\* The number of steps of _configure and configure() that can be taken.
EnabledSteps ==
    (IF ENABLED BaseCase THEN 1 ELSE 0)
    + (IF ENABLED UnknownOutput THEN 1 ELSE 0)
    + (IF ENABLED CloneAttach THEN 1 ELSE 0)
    + (IF ENABLED GenericProcessing THEN 1 ELSE 0)
    + (IF ENABLED SkipConfigured THEN 1 ELSE 0)
    + (IF ENABLED TryCrtc THEN 1 ELSE 0)
    + (IF ENABLED Exhausted THEN 1 ELSE 0)
    + (IF ENABLED Catch THEN 1 ELSE 0)
    + (IF ENABLED Unwind THEN 1 ELSE 0)
    + (IF ENABLED Propagate THEN 1 ELSE 0)

\* The position of a CRTC id in an output's possible_crtcs.
Position(possible_crtcs, id) ==
    CHOOSE k \in 1..Len(possible_crtcs) : possible_crtcs[k] = id

\* The CRTC that drives each request's output in the result.
Chosen ==
    [r \in 1..Len(requests) |->
        ResultCrtcs[CHOOSE i \in DrivingEntries(requests[r].id_) : TRUE].id_]

\* m is met before m2 in the search order: at the first request where they
\* differ, m takes the earlier CRTC of the output's possible_crtcs.
MetBefore(m, m2) ==
    \E d \in 1..Len(requests) :
        /\ \A i \in 1..(d - 1) : m[i] = m2[i]
        /\ Position(_get_output(requests[d].id_).possible_crtcs, m[d])
            < Position(_get_output(requests[d].id_).possible_crtcs, m2[d])

\* C8: the search has a single next step in every state (nothing is left
\* to chance), generic processing runs only where the clone fast path does
\* not apply, the result for requests of their own for distinct outputs is
\* the first complete assignment in the order of the requests and of each
\* output's possible_crtcs, and outputs with possible_crtcs [C1] and [C2]
\* are placed on C1 and on C2.
C8_FirstFound ==
    /\ phase = "searching" => EnabledSteps = 1
    /\ \A f \in 1..Len(stack) :
        stack[f].pc \in {"loop", "call_try"} =>
            ~CloneFastPath(_get_output(requests[stack[f].n + 1].id_),
                           requests[stack[f].n + 1],
                           stack[f].configured_crtcs)
    /\ (Succeeded /\ Independent) =>
        /\ Chosen \in Assignments
        /\ \A m \in Assignments : m # Chosen => MetBefore(Chosen, m)
    /\ ( /\ phase \in {"returned", "applied", "failed"}
         /\ Len(requests) = 2
         /\ Independent
         /\ _get_output(requests[1].id_).possible_crtcs = <<1>>
         /\ _get_output(requests[2].id_).possible_crtcs = <<2>> )
        => Succeeded /\ Chosen = <<1, 2>>

\* Three CRTC assignments exist and the first in the search order is returned.
C8_Witness ==
    /\ Succeeded
    /\ Independent
    /\ Len(requests) = 2
    /\ Cardinality(Assignments) >= 2
    /\ _get_output(requests[1].id_).possible_crtcs = <<2, 1>>
    /\ Chosen = <<2, 1>>

\* ------------------------------------------------------------------ C9
\* C9: ApplyConfiguration is called at most once, only after _configure
\* returned for the whole request sequence, with the returned lists, which
\* hold an entry for every CRTC of the topology; it is never called when
\* _configure raised.
C9_NoPartialConfiguration ==
    /\ Len(applied) <= 1
    /\ phase \in {"idle", "searching", "returned", "failed"} => applied = <<>>
    /\ applied # <<>> =>
        /\ phase = "applied"
        /\ exc = NoException
        /\ stack = <<>>
        /\ applied[1].crtcs = ResultCrtcs
        /\ applied[1].outputs = ResultOutputs
        /\ applied[1].serial = serial
        /\ Len(applied[1].outputs) = Len(requests)
        /\ {applied[1].crtcs[i].id_ : i \in 1..Len(applied[1].crtcs)}
            = {crtcs[c].id_ : c \in 1..Len(crtcs)}

\* A configuration for two requests was submitted.
C9_Witness ==
    /\ phase = "applied"
    /\ Len(applied) = 1
    /\ Len(applied[1].outputs) = 2
    /\ Len(applied[1].crtcs) = Len(crtcs)

\* ----------------------------------------------------------------- C10
\* C10 as stated: the InvalidConfigurationException that reaches the caller
\* carries the id of an output that could not be placed.
C10_ErrorNamesOutput ==
    (phase = "failed" /\ exc.class = "InvalidConfigurationException") =>
        \E r \in 1..Len(requests) : requests[r].id_ \in Range(exc.format_args)

\* C10 amended: when the search is exhausted the error that reaches the
\* caller is an InvalidConfigurationException with the fixed message
\* "Unable to find a configuration for the requested outputs"; it carries
\* no output id.
C10_ErrorIsFixedMessage ==
    /\ (phase = "failed" /\ AllKnown) =>
        /\ exc.class = "InvalidConfigurationException"
        /\ exc.text = "Unable to find a configuration for the requested outputs"
        /\ exc.format_args = <<>>
    /\ exc.class = "InvalidConfigurationException" => exc.format_args = <<>>

\* Two requests of their own for outputs that only CRTC 1 can drive failed.
C10_Witness ==
    /\ phase = "failed"
    /\ exc.class = "InvalidConfigurationException"
    /\ Len(requests) = 2
    /\ Independent
    /\ _get_output(requests[1].id_).possible_crtcs = <<1>>
    /\ _get_output(requests[2].id_).possible_crtcs = <<1>>

\* ----------------------------------------------------------------- C11
\* Every clone clones the request of an earlier position.
ClonesReferEarlier ==
    \A i \in 1..Len(requests) :
        requests[i].clone_of # None =>
            \E j \in 1..(i - 1) : requests[j].id_ = requests[i].clone_of

\* The position of the request that request i clones, directly or not
\* (i itself for a request of its own), for requests of distinct outputs.
RECURSIVE CloneRoot(_)
CloneRoot(i) ==
    IF requests[i].clone_of = None THEN i
    ELSE CloneRoot(CHOOSE j \in 1..(i - 1) :
                        requests[j].id_ = requests[i].clone_of)

SameTimings(i, j) ==
    /\ requests[i].mode = requests[j].mode
    /\ requests[i].x = requests[j].x
    /\ requests[i].y = requests[j].y
    /\ requests[i].transform = requests[j].transform

\* The valid assignments: every request has one CRTC of its output's
\* possible_crtcs, and two requests share a CRTC only when they are clones
\* of one another with the same timings.
ValidAssignments ==
    {m \in [1..Len(requests) -> CrtcIds] :
        /\ \A i \in 1..Len(requests) :
            m[i] \in Range(_get_output(requests[i].id_).possible_crtcs)
        /\ \A i, j \in 1..Len(requests) :
            (i # j /\ m[i] = m[j]) =>
                CloneRoot(i) = CloneRoot(j) /\ SameTimings(i, j)}

\* C11 as stated: when every clone clones an earlier request, _configure
\* raises InvalidConfigurationException only when no valid assignment
\* exists.
C11_FailsOnlyWhenNoValidAssignment ==
    ( /\ phase = "failed"
      /\ exc.class = "InvalidConfigurationException"
      /\ AllKnown
      /\ DistinctOutputs
      /\ ClonesReferEarlier )
        => ValidAssignments = {}

\* ----------------------------------------------------------------- C12
\* The lists of a call are the lists of its caller with the one step the
\* caller made for its head request: a new CrtcConfiguration for the
\* candidate it tries, or the head output attached to one entry.
MadeBy(caller, callee) ==
    LET request == requests[caller.n + 1]
        before == caller.configured_crtcs
        after == callee.configured_crtcs
    IN /\ callee.n = caller.n + 1
       /\ Len(callee.configured_outputs) = Len(caller.configured_outputs) + 1
       /\ SubSeq(callee.configured_outputs, 1, Len(caller.configured_outputs))
            = caller.configured_outputs
       /\ callee.configured_outputs[Len(callee.configured_outputs)].id_
            = request.id_
       /\ caller.pc \in {"call_try", "call_clone"}
       /\ caller.pc = "call_try" =>
            /\ Len(after) = Len(before) + 1
            /\ SubSeq(after, 1, Len(before)) = before
            /\ after[Len(after)].id_ =
                _get_output(request.id_).possible_crtcs[caller.k]
            /\ after[Len(after)].outputs = <<request.id_>>
       /\ caller.pc = "call_clone" =>
            /\ Len(after) = Len(before)
            /\ \E i \in 1..Len(before) :
                /\ after[i] =
                    [before[i] EXCEPT !.outputs = Append(@, request.id_)]
                /\ \A j \in 1..Len(before) : j # i => after[j] = before[j]

\* C12: a step of the search never changes the configured_outputs and the
\* configured_crtcs of a call that stays active, so after a failed
\* recursive call the caller holds what it held before the call; the lists
\* of every call are those of its caller plus the caller's one step; and
\* the result is the lists of the call that returns plus the disabled
\* CRTCs: nothing of an abandoned branch is in it.
C12_BranchIsolation ==
    [][/\ (phase = "searching" /\ phase' = "searching") =>
            \A f \in 1..Len(stack) :
                f <= Len(stack') =>
                    /\ stack'[f].n = stack[f].n
                    /\ stack'[f].configured_outputs
                        = stack[f].configured_outputs
                    /\ stack'[f].configured_crtcs = stack[f].configured_crtcs
       /\ phase' = "searching" =>
            \A f \in 1..(Len(stack') - 1) : MadeBy(stack'[f], stack'[f + 1])
       /\ (phase = "searching" /\ phase' = "returned") =>
            /\ result'[1] = Top.configured_outputs
            /\ SubSeq(result'[2], 1, Len(Top.configured_crtcs))
                = Top.configured_crtcs
            /\ \A i \in (Len(Top.configured_crtcs) + 1)..Len(result'[2]) :
                result'[2][i] = DisabledCrtc(result'[2][i].id_)]_vars

\* The first candidate of the first request was given up after a clone had
\* been attached to it; the second candidate is next.
C12_Witness ==
    /\ phase = "searching"
    /\ exc = NoException
    /\ Len(requests) = 3
    /\ Len(stack) = 1
    /\ Top.pc = "loop"
    /\ Top.k = 2
    /\ requests[1].id_ # requests[2].id_
    /\ requests[2].clone_of = requests[1].id_
    /\ _get_output(requests[1].id_).possible_crtcs = <<1, 2>>
    /\ 1 \in Range(_get_output(requests[2].id_).possible_crtcs)

\* ----------------------------------------------------------------- C13
\* The exception of _get_output is in flight.
LookupFailed == exc.class = "Exception"

\* C13: once _get_output has raised for an output id the topology lacks, no
\* call catches the exception: every step until configure() is left only
\* ends one more call, no candidate is tried any more, and the caller gets
\* that exception.
C13_LookupErrorSurfaces ==
    [][/\ LookupFailed =>
            /\ exc' = exc
            /\ \/ /\ stack # <<>>
                  /\ stack' = SubSeq(stack, 1, Len(stack) - 1)
                  /\ phase' = "searching"
               \/ /\ stack = <<>>
                  /\ stack' = <<>>
                  /\ phase' = "failed"
       /\ LookupFailed' =>
            /\ \E r \in 1..Len(requests') :
                /\ ~HasOutput(requests'[r].id_)
                /\ exc' = UnableToFindOutput(requests'[r].id_)
            /\ applied' = <<>>]_vars

\* The lookup failed below a call that had another candidate to try, and
\* the exception reached the caller.
C13_Witness ==
    /\ phase = "failed"
    /\ LookupFailed
    /\ Len(requests) = 3
    /\ HasOutput(requests[1].id_)
    /\ _get_output(requests[1].id_).possible_crtcs = <<1, 2>>
    /\ HasOutput(requests[2].id_)
    /\ _get_output(requests[2].id_).possible_crtcs = <<2, 1>>
    /\ ~HasOutput(requests[3].id_)

\* ----------------------------------------------------------------- C14
\* The i-th returned OutputConfiguration follows the delta rule: it is the
\* entry of the i-th request, with primary when the output's current
\* primary differs from "i is the first request" and presentation when the
\* current presentation differs from the requested one.
DeltaRule(i) ==
    LET output == _get_output(requests[i].id_)
        properties == ResultOutputs[i].properties
    IN /\ ResultOutputs[i].id_ = requests[i].id_
       /\ DOMAIN properties \subseteq {"primary", "presentation"}
       /\ "primary" \in DOMAIN properties
            <=> output.properties.primary # (i = 1)
       /\ "primary" \in DOMAIN properties
            => properties["primary"] = (i = 1)
       /\ "presentation" \in DOMAIN properties
            <=> output.properties.presentation # requests[i].presentation
       /\ "presentation" \in DOMAIN properties
            => properties["presentation"] = requests[i].presentation

\* The primary property of every output once the deltas of the returned
\* OutputConfigurations i.. are applied, in order, to primary.
RECURSIVE PrimaryAfter(_, _)
PrimaryAfter(i, primary) ==
    IF i > Len(ResultOutputs) THEN primary
    ELSE PrimaryAfter(
            i + 1,
            IF "primary" \in DOMAIN ResultOutputs[i].properties
            THEN [primary EXCEPT ![ResultOutputs[i].id_] =
                        ResultOutputs[i].properties["primary"]]
            ELSE primary)

CurrentPrimary ==
    [id \in {outputs[j].id_ : j \in 1..Len(outputs)} |->
        _get_output(id).properties.primary]

\* Applying the deltas leaves the first request's output primary and every
\* other requested output not primary.
FirstIsPrimaryAfter ==
    requests # <<>> =>
        /\ PrimaryAfter(1, CurrentPrimary)[requests[1].id_]
        /\ \A i \in 2..Len(requests) :
            requests[i].id_ # requests[1].id_
                => ~PrimaryAfter(1, CurrentPrimary)[requests[i].id_]

\* The first request's output is not requested again.
FirstRequestedOnce ==
    \A i \in 2..Len(requests) : requests[i].id_ # requests[1].id_

MatchesRequest(crtc, output_request) ==
    /\ crtc.new_mode = output_request.mode.id_
    /\ crtc.x = output_request.x
    /\ crtc.y = output_request.y
    /\ crtc.transform = output_request.transform

\* Every returned CrtcConfiguration that drives the output of a request
\* carries the settings of the request.
DrivenAsRequested ==
    \A r \in 1..Len(requests) :
        \A i \in DrivingEntries(requests[r].id_) :
            MatchesRequest(ResultCrtcs[i], requests[r])

\* The CRTC of a clone and the CRTC of its source carry the same mode,
\* position and transform, shared or not.
CloneDrivenAsSource ==
    \A r \in 1..Len(requests) :
        requests[r].clone_of # None =>
            \A i \in DrivingEntries(requests[r].id_),
               j \in DrivingEntries(requests[r].clone_of) :
                /\ ResultCrtcs[i].new_mode = ResultCrtcs[j].new_mode
                /\ ResultCrtcs[i].x = ResultCrtcs[j].x
                /\ ResultCrtcs[i].y = ResultCrtcs[j].y
                /\ ResultCrtcs[i].transform = ResultCrtcs[j].transform

DepthBounded ==
    /\ Len(stack) <= Len(requests) + 1
    /\ \A f \in 1..Len(stack) : stack[f].n = f - 1

\* A call that stays active never goes back in its possible_crtcs: the
\* index of its loop does not decrease, a call is made for the candidate at
\* the index only, and the loop resumes after a failed candidate at the
\* next index.
CandidatesTriedOnce ==
    \A f \in 1..Len(stack) :
        f <= Len(stack') =>
            /\ stack'[f].k >= stack[f].k
            /\ (stack[f].pc = "loop" /\ stack'[f].pc = "call_try")
                => /\ stack'[f].k = stack[f].k
                   /\ f + 1 = Len(stack')
                   /\ LET configured_crtcs == stack'[f + 1].configured_crtcs
                      IN configured_crtcs[Len(configured_crtcs)].id_ =
                            _get_output(requests[f].id_)
                                .possible_crtcs[stack[f].k]
            /\ (stack[f].pc = "call_try" /\ stack'[f].pc = "loop")
                => stack'[f].k = stack[f].k + 1
            /\ stack[f].pc = "call_try" => stack'[f].pc \in {"call_try", "loop"}

\* C16: _configure eventually returns or raises, the recursion is never
\* deeper than the number of requests plus one, and a call tries each CRTC
\* of its output's possible_crtcs at most once.
C16_Terminates ==
    /\ [](phase = "searching" => <>(stack = <<>>))
    /\ []DepthBounded
    /\ [][CandidatesTriedOnce]_vars

\* The search is as deep as it gets and has gone back: the first call is at
\* its second candidate with three calls above it.
C16_Witness ==
    /\ phase = "searching"
    /\ Len(requests) = MaxRequests
    /\ Len(stack) = MaxRequests + 1
    /\ stack[1].k = 2
    /\ stack[1].pc = "call_try"

====
